---- MODULE Spec2Model ----
(***************************************************************************)
(* Download-count rollup of package_downloads/stats_from_anaconda_org.py.  *)
(*                                                                         *)
(* A Python dict (insertion ordered) is a sequence of <<key, value>> pairs *)
(* with pairwise different keys.  A date string "YYYY-MM-DD" is the tuple  *)
(* <<YYYY, MM, DD>>; parse_date turns it into the day ordinal that         *)
(* datetime compares and subtracts.  A JSON object is a function from      *)
(* field names to values, a JSON list a sequence.                          *)
(***************************************************************************)
EXTENDS Integers, Sequences, FiniteSets, TLC

VARIABLES
    store,       \* the files under BASE_PATH: path tuple -> JSON object
    session,     \* Session.date of the current process, <<>> before the first
    snapshot,    \* package -> the download counts fetched for it in this session
    task,        \* package -> state of its save_package_stats task
    results,     \* package -> return value of its finished task
    pc,          \* position of the process in main / save_channel_stats
    store0,      \* the files when the session's first process started
    log,         \* the path tuples save_json wrote in this process, in order
    resumed,     \* what earlier processes of this session left: fresh/partial/complete
    failures,    \* number of save_json calls that raised so far
    level_in     \* the arguments of a single update_counts call

vars == <<store, session, snapshot, task, results, pc, store0, log,
          resumed, failures, level_in>>

(***************************************************************************)
(* Bounds                                                                  *)
(***************************************************************************)
MaxDay == 3
MaxRetryDay == 2
MaxTotal == 1
MaxFailures == 1
MaxEntries == 2
MaxWindow == 1

(***************************************************************************)
(* Program constants                                                       *)
(***************************************************************************)
TOPOLOGY == <<"channel", "package", "version", "subdir", "basename">>
\* the values save_channel_stats passes to save_package_stats and update_counts
max_sub_level_entries == 50
max_days == 62
FirstDay == <<2024, 1, 30>>

(***************************************************************************)
(* Dates                                                                   *)
(***************************************************************************)
IsLeap(y) == (y % 4 = 0) /\ ((y % 100 # 0) \/ (y % 400 = 0))

DaysInMonth(y, m) ==
    IF m = 2 THEN (IF IsLeap(y) THEN 29 ELSE 28)
    ELSE IF m \in {4, 6, 9, 11} THEN 30 ELSE 31

RECURSIVE DaysBeforeMonth(_, _)
DaysBeforeMonth(y, m) ==
    IF m = 1 THEN 0 ELSE DaysBeforeMonth(y, m - 1) + DaysInMonth(y, m - 1)

DaysBeforeYear(y) ==
    (y - 1) * 365 + ((y - 1) \div 4) - ((y - 1) \div 100) + ((y - 1) \div 400)

\* datetime.strptime(date, "%Y-%m-%d"), as the proleptic Gregorian ordinal
parse_date(date) ==
    DaysBeforeYear(date[1]) + DaysBeforeMonth(date[1], date[2]) + date[3]

\* datetime.strftime("%Y-%m-%d") of the day with ordinal n
strftime(n) ==
    LET y == CHOOSE yy \in 2023..2025 :
                DaysBeforeYear(yy) < n /\ n <= DaysBeforeYear(yy + 1)
        m == CHOOSE mm \in 1..12 :
                /\ DaysBeforeMonth(y, mm) < n - DaysBeforeYear(y)
                /\ n - DaysBeforeYear(y) <= DaysBeforeMonth(y, mm) + DaysInMonth(y, mm)
    IN <<y, m, n - DaysBeforeYear(y) - DaysBeforeMonth(y, m)>>

\* the first n days a session can be dated on
Days(n) == {strftime(parse_date(FirstDay) + i) : i \in 0..(n - 1)}

(***************************************************************************)
(* dict and list helpers                                                   *)
(***************************************************************************)
Range(s) == {s[i] : i \in 1..Len(s)}

Keys(d) == {d[i][1] : i \in 1..Len(d)}

Has(d, k) == \E i \in 1..Len(d) : d[i][1] = k

Get(d, k) == d[CHOOSE i \in 1..Len(d) : d[i][1] = k][2]

\* d[k] = v
Set(d, k, v) ==
    IF Has(d, k)
    THEN [i \in 1..Len(d) |-> IF d[i][1] = k THEN <<k, v>> ELSE d[i]]
    ELSE Append(d, <<k, v>>)

\* dict(pairs), OrderedDict(pairs)
RECURSIVE Dict(_)
Dict(pairs) ==
    IF pairs = <<>> THEN <<>>
    ELSE Set(Dict(SubSeq(pairs, 1, Len(pairs) - 1)),
             pairs[Len(pairs)][1], pairs[Len(pairs)][2])

\* key tuples compare like Python tuples
TupleLE(a, b) == (a[1] < b[1]) \/ (a[1] = b[1] /\ a[2] <= b[2])

\* sorted(items, key=...) for items paired with their keys: stable
RECURSIVE Sorted(_)
Sorted(keyed) ==
    IF keyed = <<>> THEN <<>>
    ELSE LET rest == Sorted(SubSeq(keyed, 1, Len(keyed) - 1))
             x == keyed[Len(keyed)]
             n == Cardinality({i \in 1..Len(rest) : TupleLE(rest[i].k, x.k)})
         IN SubSeq(rest, 1, n) \o <<x>> \o SubSeq(rest, n + 1, Len(rest))

Values(keyed) == [i \in 1..Len(keyed) |-> keyed[i].v]

\* seq[-n:]: the last n for n > 0, all of seq for n = 0, seq[|n|:] for n < 0
LastN(seq, n) ==
    IF n = 0 \/ Len(seq) <= n THEN seq
    ELSE IF n > 0 THEN SubSeq(seq, Len(seq) - n + 1, Len(seq))
    ELSE SubSeq(seq, 1 - n, Len(seq))

RECURSIVE Sum(_)
Sum(d) == IF d = <<>> THEN 0 ELSE d[1][2] + Sum(Tail(d))

\* the elements of seq at the indices satisfying keep, in order
RECURSIVE Filter(_, _, _)
Filter(seq, keep, i) ==
    IF i > Len(seq) THEN <<>>
    ELSE (IF keep[i] THEN <<seq[i]>> ELSE <<>>) \o Filter(seq, keep, i + 1)

(***************************************************************************)
(* Persisted form                                                          *)
(***************************************************************************)
get_path(path_tuple) == path_tuple

from_list_of_dicts(input_list, key_str, value_str) ==
    Dict([i \in 1..Len(input_list) |->
            <<input_list[i][key_str], input_list[i][value_str]>>])

as_list(input_dict, key_str, value_str) ==
    [i \in 1..Len(input_dict) |->
        (key_str :> input_dict[i][1]) @@ (value_str :> input_dict[i][2])]

\* what is left of a file when write_text raised after it opened the file:
\* a proper prefix of the JSON text, the empty text included, which is no
\* JSON text
Truncated == [truncated |-> TRUE]

\* loads(path.read_text()) raises JSONDecodeError
loads_raises(files, path_tuple) ==
    /\ get_path(path_tuple) \in DOMAIN files
    /\ files[get_path(path_tuple)] = Truncated

\* the value returned; no value is returned when loads_raises
load_old_counts(files, path_tuple) ==
    IF get_path(path_tuple) \in DOMAIN files
    THEN LET json == files[get_path(path_tuple)]
         IN from_list_of_dicts(
                IF "downloads_per_date" \in DOMAIN json
                THEN json["downloads_per_date"] ELSE <<>>,
                "date", "total")
    ELSE <<>>

\* the object written for path_tuple: data plus the identifying fields
json_of(path_tuple, data) ==
    [f \in {TOPOLOGY[i] : i \in 1..Len(path_tuple)} |->
        path_tuple[CHOOSE i \in 1..Len(path_tuple) : TOPOLOGY[i] = f]] @@ data

save_json(files, path_tuple, data) ==
    (get_path(path_tuple) :> json_of(path_tuple, data)) @@ files

\* the files a save_json that raises can leave: mkdir or the opening of the
\* file raised and the file is as it was, or the file was opened, which
\* empties it, and the writing raised
save_json_raises(files, path_tuple) ==
    {files, (get_path(path_tuple) :> Truncated) @@ files}

(***************************************************************************)
(* Leaf consolidation                                                      *)
(***************************************************************************)
sort_by_date(counts_per_date) ==
    Values(Sorted([i \in 1..Len(counts_per_date) |->
        [k |-> <<parse_date(counts_per_date[i][1]), counts_per_date[i][2]>>,
         v |-> counts_per_date[i]]]))

\* a dedup that drops every point equal to its predecessor
dedup_drop_repeats(counts_per_date) ==
    LET l == sort_by_date(counts_per_date)
        keep == [i \in 1..Len(l) |-> i = 1 \/ l[i - 1][2] # l[i][2]]
    IN Dict(Filter(l, keep, 1))

\* next_ of the last point is ("9999-12-31", sys.maxsize); sys.maxsize is
\* 2^63 - 1, above every total an integer of the model holds, so the total of
\* the last point never equals it
dedup_counts_per_date(counts_per_date) ==
    LET l == sort_by_date(counts_per_date)
        n == Len(l)
        prev(i) == IF i = 1 THEN <<<<0, 1, 1>>, -1>> ELSE l[i - 1]
        next_date(i) == IF i = n THEN <<9999, 12, 31>> ELSE l[i + 1][1]
        keep == [i \in 1..n |->
                    /\ ~(prev(i)[2] = l[i][2] /\ i < n /\ l[i][2] = l[i + 1][2])
                    /\ l[i][1] # next_date(i)]
    IN Dict(Filter(l, keep, 1))

\* an update that adds the total to the one already stored for the date
update_date_add(counts_per_date, current_date, total) ==
    IF Has(counts_per_date, current_date)
    THEN Set(counts_per_date, current_date, Get(counts_per_date, current_date) + total)
    ELSE Set(counts_per_date, current_date, total)

\* counts_per_date.update({current_date: total})
update_date(counts_per_date, current_date, total) ==
    Set(counts_per_date, current_date, total)

\* one iteration of the loop of update_basename_counts, up to the save
consolidate(files, current_date, key, total) ==
    dedup_counts_per_date(
        update_date(load_old_counts(files, key), current_date, total))

leaf_data(counts_per_date) ==
    [downloads_per_date |-> as_list(counts_per_date, "date", "total")]

(***************************************************************************)
(* Level aggregation                                                       *)
(***************************************************************************)
\* reduced_counts[key[:-1]][key[-1]] = counts_for_level, in the order of counts
RECURSIVE split_off_level_counts(_)
split_off_level_counts(counts) ==
    IF counts = <<>> THEN <<>>
    ELSE LET reduced == split_off_level_counts(SubSeq(counts, 1, Len(counts) - 1))
             key == counts[Len(counts)][1]
             parent == SubSeq(key, 1, Len(key) - 1)
             old == IF Has(reduced, parent) THEN Get(reduced, parent) ELSE <<>>
         IN Set(reduced, parent, Set(old, key[Len(key)], counts[Len(counts)][2]))

sort_by_date_and_counts(counts_per_date) ==
    Dict(Values(Sorted([i \in 1..Len(counts_per_date) |->
        [k |-> <<parse_date(counts_per_date[i][1]), 0>>,
         v |-> <<counts_per_date[i][1],
                 LET key_totals == counts_per_date[i][2]
                 IN Dict(Values(Sorted([j \in 1..Len(key_totals) |->
                        [k |-> <<key_totals[j][2], 0>>, v |-> key_totals[j]]])))>>]])))

\* the (sub_key, date, total) triples in the order the two loops visit them
RECURSIVE sub_items(_)
sub_items(all_sub_counts_per_date) ==
    IF all_sub_counts_per_date = <<>> THEN <<>>
    ELSE LET n == Len(all_sub_counts_per_date)
             sub_key == all_sub_counts_per_date[n][1]
             sub_counts_per_date == all_sub_counts_per_date[n][2]
         IN sub_items(SubSeq(all_sub_counts_per_date, 1, n - 1)) \o
            [i \in 1..Len(sub_counts_per_date) |->
                <<sub_key, sub_counts_per_date[i][1], sub_counts_per_date[i][2]>>]

\* counts_per_date[date][sub_key] = total for every triple
RECURSIVE collect_sub_items(_)
collect_sub_items(items) ==
    IF items = <<>> THEN <<>>
    ELSE LET counts_per_date == collect_sub_items(SubSeq(items, 1, Len(items) - 1))
             it == items[Len(items)]
             old == IF Has(counts_per_date, it[2])
                    THEN Get(counts_per_date, it[2]) ELSE <<>>
         IN Set(counts_per_date, it[2], Set(old, it[1], it[3]))

get_sub_counts_per_date(all_sub_counts_per_date) ==
    sort_by_date_and_counts(collect_sub_items(sub_items(all_sub_counts_per_date)))

\* the (date, key, total) triples of counts_per_date in iteration order
RECURSIVE date_items(_)
date_items(counts_per_date) ==
    IF counts_per_date = <<>> THEN <<>>
    ELSE LET n == Len(counts_per_date)
             date == counts_per_date[n][1]
             key_totals == counts_per_date[n][2]
         IN date_items(SubSeq(counts_per_date, 1, n - 1)) \o
            [i \in 1..Len(key_totals) |-> <<date, key_totals[i][1], key_totals[i][2]>>]

\* prev_totals[key] of a defaultdict(int)
default_int(d, k) == IF Has(d, k) THEN Get(d, k) ELSE 0

\* a first loop that also records a total equal to the one before
RECURSIVE recent_scan_ge(_, _, _, _)
recent_scan_ge(items, n, min_date, total_counts) ==
    IF n = 0
    THEN [recent_counts_per_date |-> <<>>, recent_total_counts |-> <<>>,
          prev_totals |-> <<>>]
    ELSE LET st == recent_scan_ge(items, n - 1, min_date, total_counts)
             date == items[n][1]
             key == items[n][2]
             total == items[n][3]
         IN IF parse_date(date) < min_date THEN st
            ELSE IF total >= default_int(st.prev_totals, key) /\ total > 0
            THEN [recent_counts_per_date |->
                    Set(st.recent_counts_per_date, date,
                        Set(IF Has(st.recent_counts_per_date, date)
                            THEN Get(st.recent_counts_per_date, date) ELSE <<>>,
                            key, total)),
                  recent_total_counts |->
                    IF Has(st.recent_total_counts, key) THEN st.recent_total_counts
                    ELSE Set(st.recent_total_counts, key, Get(total_counts, key) - total),
                  prev_totals |-> Set(st.prev_totals, key, total)]
            ELSE st

\* the first loop of get_recent_counts over the first n triples
RECURSIVE recent_scan(_, _, _, _)
recent_scan(items, n, min_date, total_counts) ==
    IF n = 0
    THEN [recent_counts_per_date |-> <<>>, recent_total_counts |-> <<>>,
          prev_totals |-> <<>>]
    ELSE LET st == recent_scan(items, n - 1, min_date, total_counts)
             date == items[n][1]
             key == items[n][2]
             total == items[n][3]
         IN IF parse_date(date) < min_date THEN st
            ELSE IF total > default_int(st.prev_totals, key)
            THEN [recent_counts_per_date |->
                    Set(st.recent_counts_per_date, date,
                        Set(IF Has(st.recent_counts_per_date, date)
                            THEN Get(st.recent_counts_per_date, date) ELSE <<>>,
                            key, total)),
                  recent_total_counts |->
                    IF Has(st.recent_total_counts, key) THEN st.recent_total_counts
                    ELSE Set(st.recent_total_counts, key, Get(total_counts, key) - total),
                  prev_totals |-> Set(st.prev_totals, key, total)]
            ELSE st

\* sorted(recent_total_counts.keys(), key=...)[-max_sub_level_entries:]
recent_selection(recent_total_counts, max_entries) ==
    LastN(Values(Sorted([i \in 1..Len(recent_total_counts) |->
            [k |-> <<recent_total_counts[i][2], 0>>, v |-> recent_total_counts[i][1]]])),
          max_entries)

\* the state of get_recent_counts after its first loop
recent_state(session_date, max_d, counts_per_date) ==
    recent_scan(date_items(counts_per_date), Len(date_items(counts_per_date)),
                parse_date(session_date) - max_d,
                Get(counts_per_date, session_date))

get_recent_counts(session_date, max_entries, max_d, counts_per_date) ==
    LET st == recent_state(session_date, max_d, counts_per_date)
        selection == Range(recent_selection(st.recent_total_counts, max_entries))
        rc == st.recent_counts_per_date
        counts_at_date(i) ==
            LET key_totals == rc[i][2]
            IN Filter(key_totals,
                      [j \in 1..Len(key_totals) |-> key_totals[j][1] \in selection], 1)
        selected == Filter([i \in 1..Len(rc) |-> <<rc[i][1], counts_at_date(i)>>],
                           [i \in 1..Len(rc) |-> counts_at_date(i) # <<>>], 1)
    IN sort_by_date_and_counts(selected)

\* the loops of get_summed_up_counts_per_date over the last n dates
RECURSIVE summed_scan(_, _, _)
summed_scan(ordered, n, session_date) ==
    IF n = 0
    THEN [tmp |-> Get(ordered, session_date),
          summed_up_total |-> Sum(Get(ordered, session_date)),
          summed_up_counts_per_date |-> <<>>]
    ELSE LET st == summed_scan(ordered, n - 1, session_date)
             date == ordered[Len(ordered) - n + 1][1]
             counts_at_date == ordered[Len(ordered) - n + 1][2]
             total_after == st.summed_up_total
                            - Sum([i \in 1..Len(counts_at_date) |->
                                    <<counts_at_date[i][1],
                                      Get(st.tmp, counts_at_date[i][1])
                                      - counts_at_date[i][2]>>])
             tmp_after == [i \in 1..Len(st.tmp) |->
                            IF Has(counts_at_date, st.tmp[i][1])
                            THEN <<st.tmp[i][1], Get(counts_at_date, st.tmp[i][1])>>
                            ELSE st.tmp[i]]
         IN [tmp |-> tmp_after,
             summed_up_total |-> total_after,
             summed_up_counts_per_date |->
                Set(st.summed_up_counts_per_date, date, total_after)]

get_summed_up_counts_per_date(session_date, ordered_counts_per_date) ==
    dedup_counts_per_date(
        summed_scan(ordered_counts_per_date, Len(ordered_counts_per_date),
                    session_date).summed_up_counts_per_date)

\* sorted(ordered_counts_per_date[session_date].items(), key=total)[-max:]
downloads_per_sub_level(session_date, max_entries, ordered_counts_per_date) ==
    LET items == Get(ordered_counts_per_date, session_date)
    IN Dict(LastN(Values(Sorted([i \in 1..Len(items) |->
                [k |-> <<items[i][2], 0>>, v |-> items[i]]])), max_entries))

downloads_per(sub_level) ==
    CASE sub_level = "package" -> "downloads_per_package"
      [] sub_level = "version" -> "downloads_per_version"
      [] sub_level = "subdir" -> "downloads_per_subdir"
      [] sub_level = "basename" -> "downloads_per_basename"

\* the data update_counts saves for key, from the series of its children
level_data(session_date, max_entries, max_d, key, all_sub_counts_per_date) ==
    LET sub_level == TOPOLOGY[Len(key) + 1]
        ordered_counts_per_date == get_sub_counts_per_date(all_sub_counts_per_date)
        ordered_recent_counts_per_date ==
            get_recent_counts(session_date, max_entries, max_d, ordered_counts_per_date)
        summed_up_counts_per_date ==
            get_summed_up_counts_per_date(session_date, ordered_counts_per_date)
        current == downloads_per_sub_level(session_date, max_entries,
                                           ordered_counts_per_date)
    IN ("downloads_per_date" :> as_list(summed_up_counts_per_date, "date", "total"))
       @@ (downloads_per(sub_level) :> as_list(current, sub_level, "total"))
       @@ ("recent_downloads" :>
            as_list([i \in 1..Len(ordered_recent_counts_per_date) |->
                        <<ordered_recent_counts_per_date[i][1],
                          as_list(ordered_recent_counts_per_date[i][2],
                                  sub_level, "total")>>],
                    "date", downloads_per(sub_level)))

\* next_level_counts_per_date[key] of update_counts
summed_of(session_date, all_sub_counts_per_date) ==
    get_summed_up_counts_per_date(session_date,
                                  get_sub_counts_per_date(all_sub_counts_per_date))

\* the iterations of the loop of update_counts: what each saves and passes up
update_counts(session_date, max_entries, max_d, level_counts_per_date) ==
    LET split == split_off_level_counts(level_counts_per_date)
    IN [i \in 1..Len(split) |->
            [key |-> split[i][1],
             data |-> level_data(session_date, max_entries, max_d,
                                 split[i][1], split[i][2]),
             counts |-> summed_of(session_date, split[i][2])]]

\* a loop that also gives a stored leaf missing from the totals a zero total
update_basename_counts_zero(files, current_date, current_basename_totals) ==
    LET missing == {k \in DOMAIN files : /\ Len(k) = Len(TOPOLOGY)
                                          /\ k \notin Keys(current_basename_totals)}
        totals == current_basename_totals \o
                  (IF missing = {} THEN <<>>
                   ELSE <<<<CHOOSE k \in missing : TRUE, 0>>>>)
    IN [i \in 1..Len(totals) |->
            LET counts_per_date == consolidate(files, current_date, totals[i][1],
                                               totals[i][2])
            IN [key |-> totals[i][1], data |-> leaf_data(counts_per_date),
                counts |-> counts_per_date]]

\* the iterations of the loop of update_basename_counts
update_basename_counts(files, current_date, current_basename_totals) ==
    [i \in 1..Len(current_basename_totals) |->
        LET key == current_basename_totals[i][1]
            counts_per_date == consolidate(files, current_date, key,
                                           current_basename_totals[i][2])
        IN [key |-> key, data |-> leaf_data(counts_per_date),
            counts |-> counts_per_date]]

\* the dict a loop returns: key -> counts
returned(iterations) ==
    Dict([i \in 1..Len(iterations) |-> <<iterations[i].key, iterations[i].counts>>])

\* the saves of save_package_stats in order, and its return value
RECURSIVE package_levels(_, _, _, _, _)
package_levels(session_date, max_entries, max_d, level_counts_per_date, n) ==
    IF n = 0 THEN [saves |-> <<>>, counts |-> level_counts_per_date]
    ELSE LET below == package_levels(session_date, max_entries, max_d,
                                     level_counts_per_date, n - 1)
             its == update_counts(session_date, max_entries, max_d, below.counts)
         IN [saves |-> below.saves \o its, counts |-> returned(its)]

\* the iteration of update_basename_counts in which load_old_counts raises,
\* 0 when it raises in none
first_raise(files, current_basename_totals) ==
    LET raising == {i \in 1..Len(current_basename_totals) :
                        loads_raises(files, current_basename_totals[i][1])}
    IN IF raising = {} THEN 0
       ELSE CHOOSE i \in raising : \A j \in raising : i <= j

\* raises: load_old_counts raised, after the saves of the iterations before
save_package_stats(files, session_date, max_entries, max_d, current_basename_totals) ==
    LET leaves == update_basename_counts(files, session_date, current_basename_totals)
        levels == package_levels(session_date, max_entries, max_d, returned(leaves),
                                 Len(TOPOLOGY) - 2)
        k == first_raise(files, current_basename_totals)
    IN IF k = 0
       THEN [saves |-> leaves \o levels.saves, counts |-> levels.counts,
             raises |-> FALSE]
       ELSE [saves |-> SubSeq(leaves, 1, k - 1), counts |-> <<>>, raises |-> TRUE]

\* the files after the first n saves
RECURSIVE saved(_, _, _)
saved(files, saves, n) ==
    IF n = 0 THEN files
    ELSE save_json(saved(files, saves, n - 1), saves[n].key, saves[n].data)

saved_keys(saves, n) == [i \in 1..n |-> saves[i].key]

(***************************************************************************)
(* The channel, its packages and what the API can answer                   *)
(***************************************************************************)
channel_name == "bioconda"
package_names == <<"p1", "p2">>
Packages == Range(package_names)

\* (version, subdir, basename) of the files of a package
Files(p) == IF p = "p1" THEN {<<"1.0", "noarch", "a">>}
                        ELSE {<<"2.0", "linux-64", "b">>}

Injective(f) == \A i, j \in DOMAIN f : f[i] = f[j] => i = j

\* package_info["files"]: some of the files, in any order, each with its
\* ndownloads and whether it is a conda file labelled main
ApiAnswers(p) ==
    {info \in UNION {[1..n -> [file : Files(p), ndownloads : (-1)..MaxTotal,
                               listed : BOOLEAN]] :
                     n \in 0..Cardinality(Files(p))} :
        Injective([i \in DOMAIN info |-> info[i].file])}

Max(a, b) == IF a >= b THEN a ELSE b

get_package_download_counts(channel, package_name, info) ==
    LET listed == Filter(info, [i \in 1..Len(info) |-> info[i].listed], 1)
    IN Dict([i \in 1..Len(listed) |->
                <<<<channel, package_name, listed[i].file[1], listed[i].file[2],
                    listed[i].file[3]>>,
                  Max(0, listed[i].ndownloads)>>])

\* all_package_counts_per_date after the updates in the order gather returns
RECURSIVE gathered(_, _)
gathered(res, n) ==
    IF n = 0 THEN <<>>
    ELSE LET r == res[package_names[n]]
             RECURSIVE upd(_, _)
             upd(d, i) == IF i = 0 THEN d ELSE Set(upd(d, i - 1), r[i][1], r[i][2])
         IN upd(gathered(res, n - 1), Len(r))

\* the save of the channel level
channel_saves(session_date, res) ==
    update_counts(session_date, max_sub_level_entries, max_days,
                  gathered(res, Len(package_names)))

\* a gather that returns as soon as one task has
gather_any == \E p \in Packages : task[p] = "done"

gather_done == \A p \in Packages : task[p] = "done"

(***************************************************************************)
(* One process: save_channel_stats and its tasks, and main                 *)
(***************************************************************************)
NoSnapshot == [fetched |-> FALSE, downloads |-> <<>>]

Init ==
    /\ store = <<>>
    /\ session = <<>>
    /\ snapshot = [p \in Packages |-> NoSnapshot]
    /\ task = [p \in Packages |-> "idle"]
    /\ results = [p \in Packages |-> <<>>]
    /\ pc = "idle"
    /\ store0 = <<>>
    /\ log = <<>>
    /\ resumed = "fresh"
    /\ failures = 0
    /\ level_in = <<>>

NextDay == IF session = <<>> THEN FirstDay ELSE strftime(parse_date(session) + 1)

\* main() on a new day, one of the first n: Session() reads the date, then
\* retrieve_package_names is called with two arguments and raises TypeError,
\* it takes one; save_channel_stats is not reached, no task is created and no
\* file is written
Main(n) ==
    /\ pc \in {"idle", "done", "failed", "raised"}
    /\ NextDay \in Days(n)
    /\ session' = NextDay
    /\ snapshot' = [p \in Packages |-> NoSnapshot]
    /\ task' = [p \in Packages |-> "idle"]
    /\ results' = [p \in Packages |-> <<>>]
    /\ pc' = "raised"
    /\ store0' = store
    /\ log' = <<>>
    /\ resumed' = "fresh"
    /\ UNCHANGED <<store, failures, level_in>>

\* a process that calls save_channel_stats(session, channel_name,
\* package_names) with a Session of a new day, one of the first n, up to gather
StartRun(n) ==
    /\ pc \in {"idle", "done", "failed", "raised"}
    /\ NextDay \in Days(n)
    /\ session' = NextDay
    /\ snapshot' = [p \in Packages |-> NoSnapshot]
    /\ task' = [p \in Packages |-> "pending"]
    /\ results' = [p \in Packages |-> <<>>]
    /\ pc' = "gather"
    /\ store0' = store
    /\ log' = <<>>
    /\ resumed' = "fresh"
    /\ UNCHANGED <<store, failures, level_in>>

\* save_channel_stats called again on the same day, the API answering as
\* before
Rerun ==
    /\ pc \in {"done", "failed"}
    /\ task' = [p \in Packages |-> "pending"]
    /\ results' = [p \in Packages |-> <<>>]
    /\ pc' = "gather"
    /\ log' = <<>>
    /\ resumed' = IF pc = "done" THEN "complete" ELSE "partial"
    /\ UNCHANGED <<store, session, snapshot, store0, failures, level_in>>

\* current_basename_totals of the task of p: what the API answers, and on a
\* rerun of the session what it answered before
fetched_downloads(p) ==
    IF snapshot[p].fetched THEN {snapshot[p].downloads}
    ELSE {get_package_download_counts(channel_name, p, info) : info \in ApiAnswers(p)}

\* save_package_stats from the API's answer to its return: runs without
\* suspending, so no other task takes a step in between; a task whose answer
\* is ready still runs after save_channel_stats has raised, until run() cancels
Rollup(p) ==
    /\ pc \in {"gather", "unwinding"}
    /\ task[p] = "pending"
    /\ \E downloads \in fetched_downloads(p) :
       \E run \in {save_package_stats(store, session, max_sub_level_entries,
                                        max_days, downloads)} :
            /\ snapshot' = [snapshot EXCEPT ![p] =
                                [fetched |-> TRUE, downloads |-> downloads]]
            /\ ~run.raises
            /\ store' = saved(store, run.saves, Len(run.saves))
            /\ log' = log \o saved_keys(run.saves, Len(run.saves))
            /\ results' = [results EXCEPT ![p] = run.counts]
    /\ task' = [task EXCEPT ![p] = "done"]
    /\ UNCHANGED <<session, pc, store0, resumed, failures, level_in>>

\* save_package_stats when load_old_counts raises on a truncated file
RollupRaises(p) ==
    /\ pc \in {"gather", "unwinding"}
    /\ task[p] = "pending"
    /\ \E downloads \in fetched_downloads(p) :
       \E run \in {save_package_stats(store, session, max_sub_level_entries,
                                        max_days, downloads)} :
            /\ snapshot' = [snapshot EXCEPT ![p] =
                                [fetched |-> TRUE, downloads |-> downloads]]
            /\ run.raises
            /\ store' = saved(store, run.saves, Len(run.saves))
            /\ log' = log \o saved_keys(run.saves, Len(run.saves))
    /\ task' = [task EXCEPT ![p] = "failed"]
    /\ UNCHANGED <<session, results, pc, store0, resumed, failures, level_in>>

\* save_package_stats when its n-th save_json raises, with the file of that
\* save as it was or truncated
RollupFails(p) ==
    /\ pc \in {"gather", "unwinding"}
    /\ task[p] = "pending"
    /\ failures < MaxFailures
    /\ \E downloads \in fetched_downloads(p) :
       \E run \in {save_package_stats(store, session, max_sub_level_entries,
                                        max_days, downloads)} :
       \E n \in 1..Len(run.saves) :
            /\ snapshot' = [snapshot EXCEPT ![p] =
                                [fetched |-> TRUE, downloads |-> downloads]]
            /\ store' \in save_json_raises(saved(store, run.saves, n - 1),
                                            run.saves[n].key)
            /\ log' = log \o saved_keys(run.saves, n - 1)
    /\ task' = [task EXCEPT ![p] = "failed"]
    /\ failures' = failures + 1
    /\ UNCHANGED <<session, results, pc, store0, resumed, level_in>>

\* gather re-raises the exception of a task in save_channel_stats, which
\* raises it in its caller; the tasks still pending stay scheduled
GatherRaises ==
    /\ pc = "gather"
    /\ \E p \in Packages : task[p] = "failed"
    /\ pc' = "unwinding"
    /\ UNCHANGED <<store, session, snapshot, task, results, store0, log, resumed,
                   failures, level_in>>

\* run() ends the process: it cancels the tasks still pending
Cancel ==
    /\ pc = "unwinding"
    /\ pc' = "failed"
    /\ task' = [p \in Packages |->
                    IF task[p] = "pending" THEN "cancelled" ELSE task[p]]
    /\ UNCHANGED <<store, session, snapshot, results, store0, log, resumed,
                   failures, level_in>>

\* save_channel_stats after gather returned: update_counts for the channel
Channel ==
    /\ pc = "gather"
    /\ gather_done
    /\ \E saves \in {channel_saves(session, results)} :
          /\ store' = saved(store, saves, Len(saves))
          /\ log' = log \o saved_keys(saves, Len(saves))
    /\ pc' = "done"
    /\ UNCHANGED <<session, snapshot, task, results, store0, resumed, failures,
                   level_in>>

\* the same when the n-th save_json raises, with the file of that save as it
\* was or truncated
ChannelFails ==
    /\ pc = "gather"
    /\ gather_done
    /\ failures < MaxFailures
    /\ \E saves \in {channel_saves(session, results)} :
       \E n \in 1..Len(saves) :
          /\ store' \in save_json_raises(saved(store, saves, n - 1), saves[n].key)
          /\ log' = log \o saved_keys(saves, n - 1)
    /\ pc' = "failed"
    /\ failures' = failures + 1
    /\ UNCHANGED <<session, snapshot, task, results, store0, resumed, level_in>>

\* processes that run to their end, one a day
Next ==
    \/ Main(MaxDay)
    \/ StartRun(MaxDay)
    \/ \E p \in Packages : Rollup(p)
    \/ Channel

Spec == Init /\ [][Next]_vars

\* processes in which save_json can raise, and reruns on the same day
NextRetry ==
    \/ Main(MaxRetryDay)
    \/ StartRun(MaxRetryDay)
    \/ Rerun
    \/ \E p \in Packages : Rollup(p)
    \/ \E p \in Packages : RollupFails(p)
    \/ \E p \in Packages : RollupRaises(p)
    \/ GatherRaises
    \/ Cancel
    \/ Channel
    \/ ChannelFails

SpecRetry == Init /\ [][NextRetry]_vars

(***************************************************************************)
(* A single call of update_counts, on the files of one subdir              *)
(***************************************************************************)
LastDay == strftime(parse_date(FirstDay) + MaxDay - 1)

agg_parent == <<channel_name, "p1", "1.0", "noarch">>

\* the orders in which the API lists the three files of the subdir
agg_orders == {<<"a", "b", "c">>, <<"c", "b", "a">>}

\* the series update_basename_counts can return on LastDay for one file
LeafSeries ==
    {sort_by_date(Dict([i \in 1..Len(pts) |-> pts[i]])) :
        pts \in {q \in UNION {[1..n -> Days(MaxDay) \X (0..MaxTotal)] : n \in 1..MaxDay} :
                    /\ \A i \in 1..(Len(q) - 1) :
                            parse_date(q[i][1]) < parse_date(q[i + 1][1])
                    /\ q[Len(q)][1] = LastDay
                    /\ dedup_counts_per_date(q) = q}}

InitAgg ==
    /\ store = <<>>
    /\ session = LastDay
    /\ snapshot = [p \in Packages |-> NoSnapshot]
    /\ task = [p \in Packages |-> "idle"]
    /\ results = [p \in Packages |-> <<>>]
    /\ pc = "idle"
    /\ store0 = <<>>
    /\ log = <<>>
    /\ resumed = "fresh"
    /\ failures = 0
    /\ \E order \in agg_orders :
       \E series \in [Range(order) -> LeafSeries] :
       \E entries \in 1..MaxEntries :
       \E days \in 0..MaxWindow :
            level_in = [max_sub_level_entries |-> entries,
                        max_days |-> days,
                        level_counts_per_date |->
                            [i \in 1..Len(order) |->
                                <<Append(agg_parent, order[i]), series[order[i]]>>]]

\* update_counts called with the arguments level_in
UpdateCounts ==
    /\ store = <<>>
    /\ \E its \in {update_counts(session, level_in.max_sub_level_entries,
                                  level_in.max_days,
                                  level_in.level_counts_per_date)} :
          /\ store' = saved(store, its, Len(its))
          /\ log' = log \o saved_keys(its, Len(its))
    /\ UNCHANGED <<session, snapshot, task, results, pc, store0, resumed,
                   failures, level_in>>

NextAgg == UpdateCounts

SpecAgg == InitAgg /\ [][NextAgg]_vars

(***************************************************************************)
(* Vocabulary of the properties                                            *)
(***************************************************************************)
IsPrefix(a, b) == Len(a) <= Len(b) /\ SubSeq(b, 1, Len(a)) = a

\* the series persisted for a key
series_of(files, key) == load_old_counts(files, key)

Dates(series) == Keys(series)

\* keys written by this process that are children of key
written_children(key) ==
    {c \in Range(log) : Len(c) = Len(key) + 1 /\ IsPrefix(key, c)}

\* total of the latest point of series dated on or before date, 0 without one
last_known(series, date) ==
    LET before == {i \in 1..Len(series) :
                        parse_date(series[i][1]) <= parse_date(date)}
    IN IF before = {} THEN 0
       ELSE series[CHOOSE i \in before :
                \A j \in before :
                    parse_date(series[j][1]) <= parse_date(series[i][1])][2]

RECURSIVE SumOver(_, _)
SumOver(S, f) ==
    IF S = {} THEN 0
    ELSE LET x == CHOOSE y \in S : TRUE IN f[x] + SumOver(S \ {x}, f)

\* C1: every point (d, total) of a parent series written by this process has
\* total equal to the sum over the parent's children of the child's last-known
\* total at d: the total of its latest point dated on or before d, 0 when it
\* has no such point.
C1_CarryForward ==
    \A key \in Range(log) :
        Len(key) < Len(TOPOLOGY) =>
            \A parent \in {series_of(store, key)} :
            \A i \in 1..Len(parent) :
                parent[i][2] =
                    SumOver(written_children(key),
                            [c \in written_children(key) |->
                                last_known(series_of(store, c), parent[i][1])])

\* C9: a completed process leaves every earlier point of a non-leaf series as
\* it was: a date before the session's date that has a point in the key's
\* series both before the session and after it has the same total in both.
C9_HistoryKept ==
    pc = "done" =>
        \A key \in (DOMAIN store0) \cap (DOMAIN store) :
            Len(key) < Len(TOPOLOGY) =>
                \A before \in {series_of(store0, key)} :
                \A after \in {series_of(store, key)} :
                \A d \in Dates(before) \cap Dates(after) :
                    parse_date(d) < parse_date(session) =>
                        Get(before, d) = Get(after, d)

\* the leaf keys of a package
leaf_keys(p) == {<<channel_name, p, f[1], f[2], f[3]>> : f \in Files(p)}

\* C3: a leaf key that has a stored series and is not in the snapshot fetched
\* for its package keeps its stored record: the file is not written, it gets
\* no point for the session's date, and no point of it is removed or changed.
C3_AbsentLeafStable ==
    \A p \in Packages :
        snapshot[p].fetched =>
            \A key \in leaf_keys(p) \cap DOMAIN store0 :
                key \notin Keys(snapshot[p].downloads) =>
                    /\ key \in DOMAIN store
                    /\ store[key] = store0[key]
                    /\ key \notin Range(log)
                    /\ session \notin Dates(series_of(store, key))

\* a finished process that consolidated one leaf and skipped a stored one
C3_Witness ==
    /\ pc = "done"
    /\ \E p \in Packages : \E key \in leaf_keys(p) \cap DOMAIN store0 :
            /\ key \notin Keys(snapshot[p].downloads)
            /\ store[key] = store0[key]
    /\ \E key \in Range(log) : Len(key) = Len(TOPOLOGY)

\* the merged series as a function: S with d's total replaced by t, or (d, t) added
merged(S, d, t) == [x \in Dates(S) \cup {d} |-> IF x = d THEN t ELSE Get(S, x)]

\* x is an interior point of m equal to both of its neighbours
flat_interior(m, x) ==
    LET earlier == {y \in DOMAIN m : parse_date(y) < parse_date(x)}
        later == {y \in DOMAIN m : parse_date(y) > parse_date(x)}
    IN /\ earlier # {}
       /\ later # {}
       /\ \A y \in {CHOOSE z \in earlier :
                        \A w \in earlier : parse_date(w) <= parse_date(z)} :
              m[y] = m[x]
       /\ \A y \in {CHOOSE z \in later :
                        \A w \in later : parse_date(z) <= parse_date(w)} :
              m[y] = m[x]

\* the points of m at the dates in D, as a series in date order
RECURSIVE in_date_order(_, _)
in_date_order(m, D) ==
    IF D = {} THEN <<>>
    ELSE LET x == CHOOSE z \in D : \A w \in D : parse_date(z) <= parse_date(w)
         IN <<<<x, m[x]>>>> \o in_date_order(m, D \ {x})

dedup_rule(S, d, t) ==
    LET m == merged(S, d, t)
    IN in_date_order(m, {x \in DOMAIN m : ~flat_interior(m, x)})

strictly_increasing(series) ==
    \A i \in 1..(Len(series) - 1) :
        parse_date(series[i][1]) < parse_date(series[i + 1][1])

no_flat_interior(series) ==
    \A i \in 2..(Len(series) - 1) :
        ~(series[i - 1][2] = series[i][2] /\ series[i][2] = series[i + 1][2])

Jan(d) == <<2024, 1, d>>

dedup_example ==
    dedup_counts_per_date(
        update_date(<<<<Jan(1), 5>>, <<Jan(2), 5>>, <<Jan(3), 5>>>>, Jan(4), 9))
    = <<<<Jan(1), 5>>, <<Jan(3), 5>>, <<Jan(4), 9>>>>

\* C4: the series persisted for a leaf of the snapshot is the series stored
\* before the session merged with (session date, total), minus every interior
\* point equal to both of its neighbours in the merged series; it has strictly
\* increasing dates, keeps the first and the last merged point, and has no
\* interior point equal to both neighbours.  The series 5, 5, 5 merged with 9
\* on the fourth day keeps the first, the third and the fourth point.
C4_DedupRule ==
    /\ dedup_example
    /\ \A p \in Packages :
        task[p] = "done" =>
            \A i \in 1..Len(snapshot[p].downloads) :
            \A key \in {snapshot[p].downloads[i][1]} :
            \A S \in {series_of(store0, key)} :
            \A new \in {series_of(store, key)} :
            \A m \in {merged(S, session, snapshot[p].downloads[i][2])} :
                /\ new = dedup_rule(S, session, snapshot[p].downloads[i][2])
                /\ strictly_increasing(new)
                /\ no_flat_interior(new)
                /\ \A x \in DOMAIN m :
                        (\A y \in DOMAIN m : parse_date(x) <= parse_date(y))
                        \/ (\A y \in DOMAIN m : parse_date(y) <= parse_date(x))
                        => x \in Dates(new) /\ Get(new, x) = m[x]

\* a leaf whose merged series lost an interior point
C4_Witness ==
    \E p \in Packages :
        /\ task[p] = "done"
        /\ \E i \in 1..Len(snapshot[p].downloads) :
           \E key \in {snapshot[p].downloads[i][1]} :
                /\ session \notin Dates(series_of(store0, key))
                /\ Len(series_of(store0, key)) >= 2
                /\ Len(series_of(store, key)) = Len(series_of(store0, key))

\* the keys one level below key that take part in the process: the prefixes
\* of the leaf keys fetched for the packages
taking_part(key) ==
    {SubSeq(leaf, 1, Len(key) + 1) :
        leaf \in {l \in UNION {Keys(snapshot[p].downloads) : p \in Packages} :
                    IsPrefix(key, l)}}

\* the persisted series of the keys in S, by their last component
RECURSIVE persisted_children(_)
persisted_children(S) ==
    IF S = {} THEN <<>>
    ELSE LET c == CHOOSE k \in S : TRUE
         IN <<<<c[Len(c)], series_of(store, c)>>>> \o persisted_children(S \ {c})

\* C10: a non-leaf record is written only after the record of each of its
\* children that takes part in the process, and from their persisted series;
\* the channel record is written only when every package task has returned.
C10_RootwardOrder ==
    \A i \in 1..Len(log) :
        Len(log[i]) < Len(TOPOLOGY) =>
            /\ \A c \in taking_part(log[i]) : \E j \in 1..(i - 1) : log[j] = c
            /\ Len(log[i]) = 1 => \A p \in Packages : task[p] = "done"
            /\ store[log[i]]["downloads_per_date"] =
                 as_list(summed_of(session, persisted_children(taking_part(log[i]))),
                         "date", "total")

\* a channel record written after the task of the second package returned
\* before the task of the first
C10_Witness ==
    /\ pc = "done"
    /\ \E i, j, k \in 1..Len(log) :
        /\ i < j /\ j < k
        /\ log[i] = <<channel_name, package_names[2]>>
        /\ log[j] = <<channel_name, package_names[1]>>
        /\ log[k] = <<channel_name>>

\* save_channel_stats run to its end without suspension, from files and with
\* the counts fetched in snap, leaves the files target: the tasks of
\* package_names[n..] one after the other, then the channel level
RECURSIVE save_channel_stats(_, _, _, _, _, _)
save_channel_stats(files, session_date, snap, res, n, target) ==
    IF n > Len(package_names)
    THEN \A saves \in {channel_saves(session_date, res)} :
            target = saved(files, saves, Len(saves))
    ELSE \A run \in {save_package_stats(files, session_date, max_sub_level_entries,
                                        max_days,
                                        snap[package_names[n]].downloads)} :
         /\ ~run.raises
         /\ \A after \in {saved(files, run.saves, Len(run.saves))} :
            \A res_after \in {[res EXCEPT ![package_names[n]] = run.counts]} :
            save_channel_stats(after, session_date, snap, res_after, n + 1, target)

\* C2: when a process of the session has run to its end, whatever earlier
\* processes of the session persisted before they were interrupted or ended,
\* every file is what a single uninterrupted process produces from the files
\* the session started with, the same counts and the same date.
C2_RerunIdempotent ==
    pc = "done" =>
        save_channel_stats(store0, session, snapshot,
                           [p \in Packages |-> <<>>], 1, store)

\* a rerun that ended after an interrupted process had persisted some records
\* of a session that extends stored series
C2_Witness ==
    /\ pc = "done"
    /\ resumed = "partial"
    /\ \E key \in DOMAIN store0 \cap DOMAIN store :
            /\ Len(key) = Len(TOPOLOGY)
            /\ store[key] # store0[key]
    /\ \E key \in DOMAIN store : key \notin Range(log)

\* C8: when save_json raised in the task of a package, the process still ends
\* with the other packages' tasks returned and the channel level computed.
C8_FailureIsolated ==
    (pc \in {"done", "failed"} /\ \E p \in Packages : task[p] = "failed") =>
        /\ pc = "done"
        /\ \A q \in Packages : task[q] # "failed" => task[q] = "done"

(***************************************************************************)
(* Properties of a single update_counts call                               *)
(***************************************************************************)
\* the children of the call by name, and their series
agg_children ==
    [i \in 1..Len(level_in.level_counts_per_date) |->
        <<level_in.level_counts_per_date[i][1][Len(TOPOLOGY)],
          level_in.level_counts_per_date[i][2]>>]

\* the child names in key order
name_order == <<"a", "b", "c">>
rank(name) == CHOOSE i \in 1..Len(name_order) : name_order[i] = name

\* C5: the current breakdown persisted for the parent is the last
\* max_sub_level_entries of the children sorted ascending by (total on the
\* session's date, child key), whatever the order of the children in the call.
C5_ByTotalAndKey ==
    agg_parent \in DOMAIN store =>
        \A ch \in {agg_children} :
            store[agg_parent]["downloads_per_basename"] =
                as_list(LastN(Values(Sorted([i \in 1..Len(ch) |->
                            [k |-> <<Get(ch[i][2], session), rank(ch[i][1])>>,
                             v |-> <<ch[i][1], Get(ch[i][2], session)>>]])),
                              level_in.max_sub_level_entries),
                        "basename", "total")

in_window(d) == parse_date(session) - level_in.max_days <= parse_date(d)

\* the largest total of series at the dates of the window before d, 0 without one
RECURSIVE max_earlier(_, _, _)
max_earlier(series, d, i) ==
    IF i = 0 THEN 0
    ELSE IF in_window(series[i][1]) /\ parse_date(series[i][1]) < parse_date(d)
    THEN Max(series[i][2], max_earlier(series, d, i - 1))
    ELSE max_earlier(series, d, i - 1)

\* the child has a watermark event at d
event(series, d) ==
    /\ Has(series, d)
    /\ in_window(d)
    /\ Get(series, d) > max_earlier(series, d, Len(series))

\* the children get_recent_counts selects
selected_children(ch) ==
    Range(recent_selection(
            recent_state(session, level_in.max_days,
                         get_sub_counts_per_date(ch)).recent_total_counts,
            level_in.max_sub_level_entries))

\* the (date, child, total) entries of a persisted recent breakdown
recent_entries(recent) ==
    UNION {{<<recent[i]["date"], recent[i]["downloads_per_basename"][j]["basename"],
              recent[i]["downloads_per_basename"][j]["total"]>> :
                j \in 1..Len(recent[i]["downloads_per_basename"])} :
           i \in 1..Len(recent)}

watermark_example ==
    get_recent_counts(Jan(5), 2, 3,
        get_sub_counts_per_date(
            <<<<"a", <<<<Jan(2), 10>>, <<Jan(3), 10>>, <<Jan(4), 8>>, <<Jan(5), 12>>>>>>>>))
    = <<<<Jan(2), <<<<"a", 10>>>>>>, <<Jan(5), <<<<"a", 12>>>>>>>>

\* C6: the recent breakdown persisted for the parent lists a child under a
\* date, with the child's total at that date, exactly when the child is one of
\* the selected children, the date is at most max_days before the session's
\* date, and the total exceeds every total of the child at earlier dates of
\* the window (and 0); a date without such a child is not listed, and no date
\* is listed twice.  The window series 10, 10, 8, 12 is listed at the first 10
\* and at 12 only.
C6_Watermark ==
    /\ watermark_example
    /\ agg_parent \in DOMAIN store =>
        \A ch \in {agg_children} :
        \A recent \in {store[agg_parent]["recent_downloads"]} :
        \A entries \in {recent_entries(recent)} :
        \A sel \in {selected_children(ch)} :
            /\ \A i \in 1..Len(ch) : \A d \in Days(MaxDay) :
                    (\E t \in 0..MaxTotal : <<d, ch[i][1], t>> \in entries)
                    <=> (ch[i][1] \in sel /\ event(ch[i][2], d))
            /\ \A e \in entries :
                    /\ e[2] \in Keys(ch)
                    /\ Has(Get(ch, e[2]), e[1])
                    /\ e[3] = Get(Get(ch, e[2]), e[1])
            /\ \A i \in 1..Len(recent) :
                    /\ recent[i]["downloads_per_basename"] # <<>>
                    /\ \A j \in 1..Len(recent) :
                            recent[i]["date"] = recent[j]["date"] => i = j

\* a breakdown with a child that is listed at its first total of the window
\* and not at the unchanged or lower total that follows on the session's
\* date, under which another child is listed
C6_Witness ==
    /\ agg_parent \in DOMAIN store
    /\ \E i \in 1..Len(agg_children) :
       \E d \in Days(MaxDay) :
            /\ d # session
            /\ in_window(d)
            /\ Has(agg_children[i][2], d)
            /\ Get(agg_children[i][2], d) > 0
            /\ Get(agg_children[i][2], session) <= Get(agg_children[i][2], d)
            /\ <<d, agg_children[i][1], Get(agg_children[i][2], d)>>
                    \in recent_entries(store[agg_parent]["recent_downloads"])
            /\ \A t \in 0..MaxTotal :
                    <<session, agg_children[i][1], t>>
                        \notin recent_entries(store[agg_parent]["recent_downloads"])
    /\ \E i \in 1..Len(agg_children) :
            <<session, agg_children[i][1], Get(agg_children[i][2], session)>>
                \in recent_entries(store[agg_parent]["recent_downloads"])

\* the total the child carried into the window: that of its latest point
\* before the window, 0 without one
carried_in(series) ==
    LET before == {i \in 1..Len(series) : ~in_window(series[i][1])}
    IN IF before = {} THEN 0
       ELSE series[CHOOSE i \in before :
                \A j \in before :
                    parse_date(series[j][1]) <= parse_date(series[i][1])][2]

recent_delta(series) == Get(series, session) - carried_in(series)

\* C7: get_recent_counts ranks a child by its total on the session's date
\* minus the total it carried into the window, and the children listed in the
\* recent breakdown are those of the max_sub_level_entries children with the
\* largest such delta that have a watermark event.
C7_RecentDelta ==
    agg_parent \in DOMAIN store =>
        \A ch \in {agg_children} :
        \A st \in {recent_state(session, level_in.max_days,
                                 get_sub_counts_per_date(ch))} :
        \A listed \in {{e[2] : e \in recent_entries(store[agg_parent]["recent_downloads"])}} :
            /\ \A i \in 1..Len(st.recent_total_counts) :
                    st.recent_total_counts[i][2] =
                        recent_delta(Get(ch, st.recent_total_counts[i][1]))
            /\ \E kept \in SUBSET Keys(ch) :
                    /\ Cardinality(kept) =
                        IF Len(ch) <= level_in.max_sub_level_entries THEN Len(ch)
                        ELSE level_in.max_sub_level_entries
                    /\ \A x \in kept : \A y \in Keys(ch) \ kept :
                            recent_delta(Get(ch, x)) >= recent_delta(Get(ch, y))
                    /\ listed = {x \in kept :
                                    \E d \in Days(MaxDay) : event(Get(ch, x), d)}

====
